---- MODULE Spec2Model ----
(***************************************************************************)
(* RustCommand (src/RustCommand/src/main.rs): the simulation core of a     *)
(* Missile-Command clone, as a state machine.                              *)
(*                                                                         *)
(* Numbers.  The program computes in f32; the model computes in integers   *)
(* on fixed scales:                                                        *)
(*   the cursor  in 2^-20 pixel (CU units per pixel): every f32 value the  *)
(*               cursor's coordinates take is a whole number of these, and *)
(*               the model rounds each sum as f32 does (F32);              *)
(*   rockets and interceptors                                              *)
(*               in 1/15 pixel  (PX units per pixel);                      *)
(*   radii       in 1/50 pixel  (RS units per pixel),                      *)
(*   elapsed     in 1/20 second (ES units per second; one tick takes       *)
(*               dt * 3.0 = 1/20 s off it),                                *)
(*   timers      in ticks of dt = 1/60 s.                                  *)
(* A timer is held as the number of further decrements by dt after which   *)
(* the f32 value is <= 0.0.  fl(1/60) = 0.016666668 and the rounding of    *)
(* the repeated f32 subtraction make that count differ from seconds * 60:  *)
(* the f32 recurrence v := fl(v - fl(1/60)) is evaluated by Expiry, with   *)
(*   from  4.0 (ROCKET_DELAY): v <= 0.0 first after 241 decrements,        *)
(*   from 15.0 (LEVEL_TIME):   v <= 0.0 first after 901 decrements,        *)
(*   from  0.5 (SHOT_TIMEOUT): v <= 0.0 first after  30 decrements,        *)
(*   elapsed from 5.0 by fl(dt*3.0): <= 0.0 first after 100 decrements.    *)
(* The positions of rockets are not rounded to f32: their starts and       *)
(* headings are random draws, and the errors stay below 1e-2 pixel.        *)
(***************************************************************************)
EXTENDS Integers, Sequences, FiniteSets, TLC

(* ---- scales ---------------------------------------------------------- *)
CU == 2 ^ 20
PX == 3 * 5
RS == 5 * 10
ES == 4 * 5

(* ---- program constants ----------------------------------------------- *)
DESIRED_FPS == 60
SCREEN_WIDTH == 1280
SCREEN_HEIGHT == 760
GROUND_HEIGHT == 150
CURSOR_VEL == 600
CURSOR_WIDTH == 20
CURSOR_HEIGHT == 5
ROCKET_LIFE == 1
GROUND_LIFE == 5
INTERCEPTOR_BASE_RADIUS == 20
INTERCEPTOR_PERIOD == 5
ROCKET_VEL == 80
ROCKET_DELAY == 4
LEVEL_TIME == 15
SCORE_BONUS == 150

(* ---- bounds of the model --------------------------------------------- *)
\* Simulation ticks explored after the scripted opening of a session.
MaxTicks == 4

(* ---- vectors --------------------------------------------------------- *)
Abs(n) == IF n < 0 THEN -n ELSE n

Vec2(x, y) == [x |-> x, y |-> y]

ZERO == Vec2(0, 0)

(* ---- f32 -------------------------------------------------------------- *)
\* n / q rounded to the nearest integer, ties to even
RoundDiv(n, q) ==
    LET lo == n \div q
        r  == n - lo * q
    IN  IF 2 * r > q \/ (2 * r = q /\ lo % 2 = 1) THEN lo + 1 ELSE lo

\* The spacing of f32 at magnitude a, in units of 2^-20: f32 has 24
\* significant bits, so below 2^24 units (16.0) every whole number of units
\* is an f32.
RECURSIVE Ulp(_, _)
Ulp(a, q) == IF a < 2 ^ 24 * q THEN q ELSE Ulp(a, 2 * q)

\* the f32 nearest to v units of 2^-20 (what an f32 sum of two such f32 is)
F32(v) ==
    LET a == Abs(v)
        q == Ulp(a, 1)
        m == RoundDiv(a, q) * q
    IN  IF v < 0 THEN -m ELSE m

\* let seconds = 1.0 / (DESIRED_FPS as f32): the f32 is DtMant * 2^-29
DtMant == RoundDiv(2 ^ 29, DESIRED_FPS)

\* An f32 timer is held as [m, s], the value m * 2^s units, where the unit
\* is the spacing of f32 at the magnitude of the step taken off the timer
\* (2^-29 s for dt) and m has the 24 significant bits of an f32.
RECURSIVE F32Norm(_, _)
F32Norm(m, s) ==
    IF m >= 2 ^ 24 THEN F32Norm(m \div 2, s + 1)
    ELSE IF m > 0 /\ m < 2 ^ 23 /\ s > 0 THEN F32Norm(2 * m, s - 1)
    ELSE [m |-> m, s |-> s]

\* v - d in f32, d a step of d units (d < 2^24): the exact difference is
\* rounded once, to the spacing of the binade it falls in, ties to even.
RECURSIVE F32Sub(_, _)
F32Sub(v, d) ==
    IF v.s = 0 THEN F32Norm(v.m - d, 0)
    ELSE LET p == 2 ^ v.s
             q == d \div p
             r == d % p
         IN  IF v.m - q - (IF r > 0 THEN 1 ELSE 0) >= 2 ^ 23
             THEN F32Norm(IF 2 * r < p THEN v.m - q
                          ELSE IF 2 * r > p THEN v.m - q - 1
                          ELSE IF (v.m - q) % 2 = 0 THEN v.m - q
                          ELSE v.m - q - 1, v.s)
             ELSE F32Sub([m |-> 2 * v.m, s |-> v.s - 1], d)

\* `timer -= step` run up to n times, stopping once `timer <= 0.0` holds:
\* the value reached and the number of decrements made
RECURSIVE Countdown(_, _, _)
Countdown(v, d, n) ==
    IF n = 1
    THEN IF v.m <= 0 THEN [v |-> v, count |-> 0]
         ELSE [v |-> F32Sub(v, d), count |-> 1]
    ELSE LET h == n \div 2
             mid == Countdown(v, d, h)
         IN  \* the test makes TLC evaluate the first half before the second
             IF mid.count < h THEN mid
             ELSE LET rest == Countdown(mid.v, d, n - h)
                  IN  [v |-> rest.v, count |-> mid.count + rest.count]

\* the number of times `timer -= step` runs until `timer <= 0.0` holds; a
\* step of d >= 2^23 units takes at least 2^22 units off a timer below
\* 2^(24 + s) units, so 2^(s + 2) decrements always suffice
Expiry(v, d) == Countdown(v, d, 2 ^ (v.s + 2)).count

\* Timer reset values in ticks: ROCKET_DELAY, LEVEL_TIME and SHOT_TIMEOUT
\* (0.5 s) counted down by dt.
RocketDelayTicks == Expiry(F32Norm(ROCKET_DELAY, 29), DtMant)
LevelTimeTicks == Expiry(F32Norm(LEVEL_TIME, 29), DtMant)
ShotTimeoutTicks == Expiry(F32Norm(1, 28), DtMant)

\* INTERCEPTOR_PERIOD counted down by fl(dt * 3.0), an f32 of spacing 2^-28
ElapseTicks == Expiry(F32Norm(INTERCEPTOR_PERIOD, 28), RoundDiv(3 * DtMant, 2))

\* a coordinate of the cursor (CU units per pixel) in the units of the
\* rockets and interceptors (PX units per pixel), rounded down
FieldUnits(c) == ((c \div 2 ^ 12) * PX) \div 2 ^ 8

\* A heading is held as 5 * (sin angle, cos angle); the model uses angles
\* whose sine and cosine are rational: 0.0 is (0, 5), PI is (0, -5).
vec_from_angle(angle) == Vec2(angle.s5, angle.c5)

AngleZero == [s5 |-> 0, c5 |-> 5]

(* ---- actors ---------------------------------------------------------- *)
create_player_cursor ==
    [pos |-> ZERO, initial_pos |-> ZERO, angle |-> AngleZero,
     life |-> GROUND_LIFE, elapsed |-> 0, radius |-> 0]

create_rocket ==
    [pos |-> ZERO, initial_pos |-> ZERO, angle |-> AngleZero,
     life |-> ROCKET_LIFE, elapsed |-> 0, radius |-> 0]

create_interceptor ==
    [pos |-> ZERO, initial_pos |-> ZERO, angle |-> AngleZero,
     life |-> ROCKET_LIFE, elapsed |-> INTERCEPTOR_PERIOD * ES,
     radius |-> INTERCEPTOR_BASE_RADIUS * RS]

(* ---- cursor ---------------------------------------------------------- *)
\* check_cursor_bound: the actor after the corrective step, and the result.
check_cursor_bound(actor, x, y) ==
    LET screen_x == (x \div 2) * CU
        screen_y == (y \div 2) * CU
    IN  IF F32(actor.pos.x + CURSOR_WIDTH * CU) > screen_x
        THEN [actor |-> [actor EXCEPT !.pos.x = F32(@ - CU)], ok |-> FALSE]
        ELSE IF actor.pos.x < -screen_x
        THEN [actor |-> [actor EXCEPT !.pos.x = F32(@ + CU)], ok |-> FALSE]
        ELSE IF actor.pos.y > screen_y
        THEN [actor |-> [actor EXCEPT !.pos.y = F32(@ - CU)], ok |-> FALSE]
        ELSE IF F32(actor.pos.y - CURSOR_HEIGHT * CU) < -screen_y + GROUND_HEIGHT * CU
        THEN [actor |-> [actor EXCEPT !.pos.y = F32(@ + CU)], ok |-> FALSE]
        ELSE [actor |-> actor, ok |-> TRUE]

\* input.axis * CURSOR_VEL * dt in f32: axis * CURSOR_VEL is exact, and its
\* product with dt is CURSOR_VEL * DtMant * 2^-29 pixel, that is
\* (CURSOR_VEL / 8) * DtMant / 2^6 units, rounded to a whole number of units
\* (the spacing of f32 from 8.0 to 16.0).
CursorStep(axis) == axis * RoundDiv((CURSOR_VEL \div 8) * DtMant, 2 ^ 6)

\* faulty variant: the displacement is applied after a corrective step too
cursor_move_always(actor, x, y, input) ==
    LET r == check_cursor_bound(actor, x, y)
    IN  [r.actor EXCEPT !.pos = Vec2(F32(@.x + CursorStep(input.xaxis)),
                                     F32(@.y + CursorStep(input.yaxis)))]

cursor_move(actor, x, y, input) ==
    LET r == check_cursor_bound(actor, x, y)
    IN  IF r.ok
        THEN [r.actor EXCEPT !.pos = Vec2(F32(@.x + CursorStep(input.xaxis)),
                                          F32(@.y + CursorStep(input.yaxis)))]
        ELSE r.actor

(* ---- rockets and interceptors ---------------------------------------- *)
\* one component of vec_from_angle(angle) * ROCKET_VEL * dt
RocketStep(h5) == (h5 * ROCKET_VEL * PX) \div (5 * DESIRED_FPS)

rocket_move(actor) ==
    LET v == vec_from_angle(actor.angle)
    IN  [actor EXCEPT !.pos = Vec2(@.x + RocketStep(v.x), @.y + RocketStep(v.y))]

\* INTERCEPTOR_BASE_RADIUS * (-(((e - 2.5) * (e - 2.5)) / 2.5) + 2.5)
RadiusAt(e) ==
    (INTERCEPTOR_BASE_RADIUS * RS * 5) \div 2
    - (INTERCEPTOR_BASE_RADIUS * RS * 2 * (2 * e - 5 * ES) * (2 * e - 5 * ES))
          \div (5 * 4 * ES * ES)

\* faulty variant: the aging step takes dt * 3.0 off twice
interceptor_elapse_twice(actor) ==
    LET e == actor.elapsed - 2 * ((3 * ES) \div DESIRED_FPS)
    IN  [actor EXCEPT !.elapsed = e, !.radius = RadiusAt(e)]

interceptor_elapse(actor) ==
    LET e == actor.elapsed - (3 * ES) \div DESIRED_FPS
    IN  [actor EXCEPT !.elapsed = e, !.radius = RadiusAt(e)]

(* ---- MainState -------------------------------------------------------- *)
\* MainState::new.  Rand32 (crate oorandom) is not part of the sources: of
\* self.rng the model holds the number of calls made on it since
\* Rand32::new(1337), and the value a call returns is any value of the
\* call's range (for rand_float, one of those RocketStarts stands for).
new ==
    [player |-> create_player_cursor,
     screen_width |-> SCREEN_WIDTH,
     screen_height |-> SCREEN_HEIGHT,
     input |-> [xaxis |-> 0, yaxis |-> 0, fire |-> FALSE],
     rockets |-> << >>,
     interceptors |-> << >>,
     shot_timeout |-> 0,
     rocket_delay |-> RocketDelayTicks,
     rng |-> 0,
     level_timer |-> LevelTimeTicks,
     level |-> 1,
     score |-> 0]

GroundLine(st) == -((st.screen_height * PX) \div 2) + GROUND_HEIGHT * PX

\* rocket.pos.y < -screen_y + GROUND_HEIGHT
below_ground(st, rocket) == rocket.pos.y < GroundLine(st)

\* rocket.pos.x > screen_x || rocket.pos.x < -screen_x
off_side(st, rocket) ==
    LET screen_x == (st.screen_width * PX) \div 2
    IN  rocket.pos.x > screen_x \/ rocket.pos.x < -screen_x

\* faulty variant: the explosion's position is not set
hit_ground_unplaced(st, i) ==
    [st EXCEPT !.rockets[i].life = 0,
               !.player.life = @ - 1,
               !.interceptors = Append(@, create_interceptor)]

\* the body of "hit ground" for rocket i
hit_ground(st, i) ==
    LET explosion == [create_interceptor EXCEPT !.pos = st.rockets[i].pos]
    IN  [st EXCEPT !.rockets[i].life = 0,
                   !.player.life = @ - 1,
                   !.interceptors = Append(@, explosion)]

\* faulty variant: leaving by the side damages the player too
hit_side_damages(st, i) ==
    [st EXCEPT !.rockets[i].life = 0, !.player.life = @ - 1]

\* the body of "hit side" for rocket i
hit_side(st, i) == [st EXCEPT !.rockets[i].life = 0]

\* one iteration of the loop of handle_border_collisions
border_rocket(st, i) ==
    LET st1 == IF below_ground(st, st.rockets[i]) THEN hit_ground(st, i) ELSE st
    IN  IF off_side(st1, st1.rockets[i]) THEN hit_side(st1, i) ELSE st1

RECURSIVE border_loop(_, _)
border_loop(st, i) ==
    IF i > Len(st.rockets) THEN st ELSE border_loop(border_rocket(st, i), i + 1)

handle_border_collisions(st) == border_loop(st, 1)

\* dist.length() < interceptor.radius, dist = rocket.pos - interceptor.pos.
\* In model units: dist / PX < radius / RS.  The first two conjuncts follow
\* from the third and keep the squares small.
in_blast(rocket, interceptor) ==
    LET dx == rocket.pos.x - interceptor.pos.x
        dy == rocket.pos.y - interceptor.pos.y
        r  == interceptor.radius
    IN  /\ r > 0
        /\ RS * Abs(dx) < PX * r
        /\ RS * Abs(dy) < PX * r
        /\ (RS \div 5) * (RS \div 5) * (dx * dx + dy * dy)
               < (PX \div 5) * (PX \div 5) * r * r

\* faulty variant: a collision awards the bonus and spares the rocket
collision_score_only(st, i) == [st EXCEPT !.score = @ + SCORE_BONUS]

\* the body of "collision" for rocket i
collision(st, i) == [st EXCEPT !.rockets[i].life = 0, !.score = @ + SCORE_BONUS]

RECURSIVE interception_loop(_, _, _)
interception_loop(st, i, j) ==
    IF i > Len(st.rockets) THEN st
    ELSE IF j > Len(st.interceptors) THEN interception_loop(st, i + 1, 1)
    ELSE interception_loop(
             IF in_blast(st.rockets[i], st.interceptors[j])
             THEN collision(st, i) ELSE st,
             i, j + 1)

\* faulty variant: the pass removes the rockets it kills at once
handle_interceptions_removing(st) ==
    LET t == interception_loop(st, 1, 1)
    IN  [t EXCEPT !.rockets = SelectSeq(@, LAMBDA r : r.life > 0)]

handle_interceptions(st) == interception_loop(st, 1, 1)

\* faulty variant: firing does not restart the timeout
fire_interceptor_no_timeout(st) ==
    LET shot == [create_interceptor EXCEPT
                     !.pos = Vec2(FieldUnits(st.player.pos.x),
                                  FieldUnits(st.player.pos.y))]
    IN  [st EXCEPT !.interceptors = Append(@, shot)]

\* shot.pos = self.player.pos, in the units of the interceptors
fire_interceptor(st) ==
    LET shot == [create_interceptor EXCEPT
                     !.pos = Vec2(FieldUnits(st.player.pos.x),
                                  FieldUnits(st.player.pos.y))]
    IN  [st EXCEPT !.shot_timeout = ShotTimeoutTicks,
                   !.interceptors = Append(@, shot)]

\* The rockets create_rockets returns.  draws[i] holds rocket i's two
\* rand_float draws, already converted: x = rand_float() * x - screen_x and
\* the heading for angle = rand_float() * 0.5 * PI + 0.75 * PI.
create_rockets(draws, x, y) ==
    LET screen_y == (y * PX) \div 2
    IN  [i \in 1..Len(draws) |->
            [create_rocket EXCEPT !.pos = Vec2(draws[i].x, screen_y),
                                  !.initial_pos = Vec2(draws[i].x, screen_y),
                                  !.angle = draws[i].angle]]

(* ---- the body of update's loop ---------------------------------------- *)
\* self.level_timer -= seconds; if self.level_timer <= 0.0 { ... }
level_step(st) ==
    LET t == st.level_timer - 1
    IN  IF t <= 0
        THEN [st EXCEPT !.level = @ + 1, !.level_timer = LevelTimeTicks]
        ELSE [st EXCEPT !.level_timer = t]

cursor_step(st) ==
    [st EXCEPT !.player = cursor_move(@, st.screen_width, st.screen_height, st.input)]

\* self.shot_timeout -= seconds; if self.input.fire && ... { fire_interceptor }
shot_step(st) ==
    LET st1 == [st EXCEPT !.shot_timeout = @ - 1]
    IN  IF st1.input.fire /\ st1.shot_timeout <= 0 THEN fire_interceptor(st1) ELSE st1

\* whether this tick's decrement of rocket_delay brings it to <= 0.0
WaveDue(st) == st.rocket_delay - 1 <= 0

\* self.rocket_delay -= seconds; let num_rockets = self.rng.rand_range(..);
\* if self.rocket_delay <= 0.0 { push the wave }
\* (create_rockets resets rocket_delay and calls rand_float twice a rocket)
spawn_step(st, draws) ==
    LET st1 == [st EXCEPT !.rocket_delay = @ - 1, !.rng = @ + 1]
    IN  IF st1.rocket_delay <= 0
        THEN [st1 EXCEPT !.rocket_delay = RocketDelayTicks,
                         !.rng = @ + 2 * Len(draws),
                         !.rockets = @ \o create_rockets(draws, st.screen_width,
                                                         st.screen_height)]
        ELSE st1

\* for rocket in &mut self.rockets { rocket_move }; for interceptor ... { elapse }
kinematics(st) ==
    [st EXCEPT !.rockets = [i \in 1..Len(@) |-> rocket_move(@[i])],
               !.interceptors = [i \in 1..Len(@) |-> interceptor_elapse(@[i])]]

\* update's loop body up to the collision passes
advance(st, draws) ==
    kinematics(spawn_step(shot_step(cursor_step(level_step(st))), draws))

Alive(r) == r.life > 0

\* faulty variant: an interceptor at exactly 0 is kept
Unexpired_inclusive(i) == i.elapsed >= 0

Unexpired(i) == i.elapsed > 0

\* self.rockets.retain(|r| r.life > 0.0); self.interceptors.retain(|i| i.elapsed > 0.0)
prune(st) ==
    [st EXCEPT !.rockets = SelectSeq(@, Alive),
               !.interceptors = SelectSeq(@, Unexpired)]

\* faulty variant: the game ends only below zero
termination_check_strict(st, c) ==
    IF st.player.life < 0
    THEN [c EXCEPT !.quit_requested = TRUE, !.game_over = @ + 1]
    ELSE c

\* if self.player.life <= 0.0 { println!("Game Over!"); ...; ctx.request_quit() }
\* c.game_over counts the announcements.
termination_check(st, c) ==
    IF st.player.life <= 0
    THEN [c EXCEPT !.quit_requested = TRUE, !.game_over = @ + 1]
    ELSE c

\* the range (1 + level)..(3 + level) handed to rand_range (upper end excluded)
WaveSizes(st) == (1 + st.level)..(2 + st.level)

\* The (start x, heading) pairs a rocket's two rand_float draws stand for:
\*   Down    x = 0, angle PI: straight down, reaches the ground;
\*   DownLeft  x = -300, angle PI: the same, 300 pixels to the left;
\*   Corner  x = 183.2, sin = 3/5, cos = -4/5: leaves the right edge in the
\*           tick in which it falls below the ground line;
\*   Edge    x = 639.33, same heading: leaves the right edge in its first tick.
Down == [x |-> 0, angle |-> [s5 |-> 0, c5 |-> -5]]

DownLeft == [x |-> -300 * PX, angle |-> [s5 |-> 0, c5 |-> -5]]

Corner == [x |-> 183 * PX + 3, angle |-> [s5 |-> 3, c5 |-> -4]]

Edge == [x |-> 639 * PX + 5, angle |-> [s5 |-> 3, c5 |-> -4]]

RocketStarts == {Down, DownLeft, Corner, Edge}

(* ---- observers (not program state) ------------------------------------ *)
\* age: ticks run since construction; waves: waves spawned;
\* last_wave: the tick of the last wave (0: none yet);
\* last_shot: the tick in which the player last fired (0: not yet);
\* fire_held: the fire flag was set in every tick since that one;
\* level_draw: the value rand_range returned in the last tick that raised
\*   the level (0: none yet);
\* ground_hits: rockets found below the ground line by a border pass;
\* clamped: whether the last tick's check_cursor_bound returned false;
\* made: for each member of ms.interceptors, in the same order, the tick
\*   that created it and whether the player fired it.
ObsNew ==
    [age |-> 0, waves |-> 0, last_wave |-> 0, last_shot |-> 0, fire_held |-> FALSE,
     level_draw |-> 0, ground_hits |-> 0, clamped |-> FALSE, made |-> << >>]

\* whether this tick's decrement of shot_timeout lets a held fire key fire
ShotDue(st) == st.input.fire /\ st.shot_timeout - 1 <= 0

\* num is the value this tick's rand_range returns
ObsAdvance(o, st, num) ==
    [o EXCEPT !.age = @ + 1,
              !.waves = IF WaveDue(st) THEN @ + 1 ELSE @,
              !.last_wave = IF WaveDue(st) THEN o.age + 1 ELSE @,
              !.last_shot = IF ShotDue(st) THEN o.age + 1 ELSE @,
              !.fire_held = ShotDue(st) \/ (@ /\ st.input.fire),
              !.level_draw = IF level_step(st).level # st.level THEN num ELSE @,
              !.clamped = ~check_cursor_bound(st.player, st.screen_width,
                                              st.screen_height).ok,
              !.made = IF ShotDue(st)
                       THEN Append(@, [tick |-> o.age + 1, player |-> TRUE])
                       ELSE @]

ObsBorder(o, st) ==
    LET hits == Cardinality({i \in 1..Len(st.rockets) : below_ground(st, st.rockets[i])})
    IN  [o EXCEPT !.ground_hits = @ + hits,
                  !.made = @ \o [k \in 1..hits |-> [tick |-> o.age, player |-> FALSE]]]

\* the entries of the interceptors that the retain keeps
ObsPrune(o, st) ==
    LET both == [j \in 1..Len(st.interceptors) |->
                    [made |-> o.made[j], actor |-> st.interceptors[j]]]
        kept == SelectSeq(both, LAMBDA b : Unexpired(b.actor))
    IN  [o EXCEPT !.made = [j \in 1..Len(kept) |-> kept[j].made]]

CtxNew == [quit_requested |-> FALSE, game_over |-> 0]

(* ---- sessions --------------------------------------------------------- *)
\* One whole iteration of update's loop on the program state, the context
\* and the observers: what Tick, BorderCollisions, Interceptions and EndTick
\* do in turn.
LoopBody(w, num, draws) ==
    LET a == advance(w.ms, draws)
        b == handle_border_collisions(a)
        c == handle_interceptions(b)
    IN  [ms |-> prune(c),
         ctx |-> termination_check(c, w.ctx),
         obs |-> ObsPrune(ObsBorder(ObsAdvance(w.obs, w.ms, num), a), c)]

\* An opening is the scripted start of a session: a sequence of holds
\* [n, xaxis, yaxis, fire] (the input state kept for n ticks, one tick per
\* update call) and the draws of its first waves, a sequence of sequences of
\* RocketStarts.  A wave past the script is the smallest the level allows and
\* has only Edge rockets, which leave at once; in a tick without a wave
\* rand_range returns the smallest value of its range.  Of the MaxTicks ticks
\* explored after an opening, the opening counts lead as run already (an
\* opening with lead MaxTicks - k is explored for k ticks).
QuietWave(st) == [i \in 1..(1 + level_step(st).level) |-> Edge]

OpeningDraws(o, w) ==
    IF ~WaveDue(w.ms) THEN << >>
    ELSE IF w.obs.waves + 1 <= Len(o.waves) THEN o.waves[w.obs.waves + 1]
    ELSE QuietWave(w.ms)

\* One tick of an opening under the held input; nothing runs once the
\* program has asked to quit.
OpeningTick(o, w, hold) ==
    IF w.ctx.quit_requested THEN w
    ELSE LET w1 == [w EXCEPT !.ms.input = [xaxis |-> hold.xaxis,
                                           yaxis |-> hold.yaxis,
                                           fire |-> hold.fire]]
             draws == OpeningDraws(o, w1)
         IN  LoopBody(w1, IF WaveDue(w1.ms) THEN Len(draws)
                          ELSE 1 + level_step(w1.ms).level, draws)

RECURSIVE OpeningHold(_, _, _, _)
OpeningHold(o, w, hold, n) ==
    IF n = 0 THEN w
    ELSE IF n = 1 THEN OpeningTick(o, w, hold)
    ELSE LET h == n \div 2
             mid == OpeningHold(o, w, hold, h)
         IN  \* the test makes TLC evaluate the first half before the second
             IF mid.obs.age >= 0 THEN OpeningHold(o, mid, hold, n - h) ELSE mid

RECURSIVE OpeningFrom(_, _, _)
OpeningFrom(o, w, k) ==
    IF k > Len(o.holds) THEN w
    ELSE OpeningFrom(o, OpeningHold(o, w, o.holds[k], o.holds[k].n), k + 1)

Constructed == [ms |-> new, ctx |-> CtxNew, obs |-> ObsNew]

AfterOpening(o) == OpeningFrom(o, Constructed, 1)

Hold(n, xaxis, yaxis, fire) == [n |-> n, xaxis |-> xaxis, yaxis |-> yaxis, fire |-> fire]

Idle(n) == Hold(n, 0, 0, FALSE)

\* The openings explored.  Ticks are counted from construction; wave j is
\* spawned in tick j * RocketDelayTicks and moves in that tick already.
\* DownFlight and CornerFlight are the moves after which a Down and a Corner
\* rocket are still not below the ground line (457 and 571): the next move
\* takes them below it.
DownFlight == ((SCREEN_HEIGHT - GROUND_HEIGHT) * PX) \div (-RocketStep(Down.angle.c5))

CornerFlight == ((SCREEN_HEIGHT - GROUND_HEIGHT) * PX) \div (-RocketStep(Corner.angle.c5))

\* the moves that take a Down rocket to the height of the origin (285)
OriginFlight == ((SCREEN_HEIGHT \div 2) * PX) \div (-RocketStep(Down.angle.c5))

Openings ==
    { \* the constructor's state
      [holds |-> << >>, waves |-> << >>, lead |-> 0],
      \* the cursor one pixel inside the right bound and ten below the top
      \* one, Right and Up held
      [holds |-> <<Hold(37, 1, 1, FALSE), Hold(25, 1, 0, FALSE), Hold(1, 1, 1, FALSE)>>,
       waves |-> << >>, lead |-> 0],
      \* the cursor next to the bottom left corner, keys released
      [holds |-> <<Hold(63, -1, 0, FALSE), Hold(22, 0, -1, FALSE), Idle(1)>>,
       waves |-> << >>, lead |-> 0],
      \* one shot from the origin in the first tick, about to expire
      [holds |-> <<Hold(1, 0, 0, TRUE), Idle(96)>>, waves |-> << >>, lead |-> 0],
      \* the tick before the first wave; only that one tick is explored
      [holds |-> <<Idle(RocketDelayTicks - 1)>>, waves |-> << >>,
       lead |-> MaxTicks - 1],
      \* the tick before the second wave; only that one tick is explored
      [holds |-> <<Idle(2 * RocketDelayTicks - 1)>>, waves |-> <<<<Edge, Edge>>>>,
       lead |-> MaxTicks - 1],
      \* a rocket of the first wave about to reach the ground right below
      \* the cursor, which is moving down with the fire key held and the
      \* next shot due
      [holds |-> <<Idle(RocketDelayTicks + DownFlight - ShotTimeoutTicks - 1),
                   Hold(ShotTimeoutTicks - 22, 0, 0, TRUE),
                   Hold(22, 0, -1, TRUE)>>,
       waves |-> <<<<Down, Edge>>>>, lead |-> MaxTicks - 3],
      \* a rocket of the first wave two moves above the cursor, which rests
      \* at the origin with a shot due
      [holds |-> <<Idle(RocketDelayTicks + OriginFlight - 3)>>,
       waves |-> <<<<Down, Edge>>>>, lead |-> MaxTicks - 2],
      \* two ticks before the level rises for the first time
      [holds |-> <<Idle(LevelTimeTicks - 2)>>, waves |-> << >>,
       lead |-> MaxTicks - 2],
      \* the explosion of a ground impact about to expire
      [holds |-> <<Idle(RocketDelayTicks + DownFlight + ElapseTicks - 2)>>,
       waves |-> <<<<Down, Edge>>>>, lead |-> MaxTicks - 2],
      \* a rocket about to leave the right edge below the ground line
      [holds |-> <<Idle(RocketDelayTicks + CornerFlight - 2)>>,
       waves |-> <<<<Corner, Edge>>>>, lead |-> MaxTicks - 3],
      \* four ground impacts so far, the fifth about to happen
      [holds |-> <<Idle(3 * RocketDelayTicks + DownFlight - 2)>>,
       waves |-> <<<<Down, DownLeft>>, <<Down, DownLeft>>, <<Down, Edge>>>>,
       lead |-> MaxTicks - 3],
      \* four ground impacts so far, the fifth and sixth about to happen
      [holds |-> <<Idle(3 * RocketDelayTicks + DownFlight - 2)>>,
       waves |-> <<<<Down, DownLeft>>, <<Down, DownLeft>>, <<Down, DownLeft>>>>,
       lead |-> MaxTicks - 3] }

(* ---- the state machine ------------------------------------------------ *)
VARIABLES ms, ctx, pc, obs, ticks

vars == <<ms, ctx, pc, obs, ticks>>

\* The state a session is in after its opening.
Init ==
    \E o \in Openings :
        LET w == AfterOpening(o)
        IN  /\ ms = w.ms
            /\ ctx = w.ctx
            /\ obs = w.obs
            /\ pc = IF w.ctx.quit_requested THEN "exited" ELSE "events"
            /\ ticks = o.lead

\* The event loop calls update.
Update ==
    /\ pc = "events"
    /\ pc' = "loop"
    /\ UNCHANGED <<ms, ctx, obs, ticks>>

\* check_update_time is true: the loop body up to the collision passes.
Tick ==
    /\ pc = "loop"
    /\ ticks < MaxTicks
    /\ \E num \in WaveSizes(level_step(ms)) :
         /\ \E draws \in (IF WaveDue(ms) THEN [1..num -> RocketStarts] ELSE {<< >>}) :
               ms' = advance(ms, draws)
         /\ obs' = ObsAdvance(obs, ms, num)
    /\ ticks' = ticks + 1
    /\ pc' = "border"
    /\ UNCHANGED ctx

BorderCollisions ==
    /\ pc = "border"
    /\ ms' = handle_border_collisions(ms)
    /\ obs' = ObsBorder(obs, ms)
    /\ pc' = "interceptions"
    /\ UNCHANGED <<ctx, ticks>>

Interceptions ==
    /\ pc = "interceptions"
    /\ ms' = handle_interceptions(ms)
    /\ pc' = "prune"
    /\ UNCHANGED <<ctx, obs, ticks>>

\* the two retain calls and the termination check
EndTick ==
    /\ pc = "prune"
    /\ ms' = prune(ms)
    /\ ctx' = termination_check(ms, ctx)
    /\ obs' = ObsPrune(obs, ms)
    /\ pc' = "loop"
    /\ UNCHANGED ticks

\* check_update_time is false: update returns to the event loop, which
\* leaves when a quit was requested.
Return ==
    /\ pc = "loop"
    /\ pc' = IF ctx.quit_requested THEN "exited" ELSE "events"
    /\ UNCHANGED <<ms, ctx, obs, ticks>>

KeyCodes == {"Up", "Down", "Left", "Right", "Space", "Escape", "Other"}

key_down_event(st, keycode) ==
    CASE keycode = "Up" -> [st EXCEPT !.input.yaxis = 1]
      [] keycode = "Down" -> [st EXCEPT !.input.yaxis = -1]
      [] keycode = "Left" -> [st EXCEPT !.input.xaxis = -1]
      [] keycode = "Right" -> [st EXCEPT !.input.xaxis = 1]
      [] keycode = "Space" -> [st EXCEPT !.input.fire = TRUE]
      [] OTHER -> st

key_up_event(st, keycode) ==
    CASE keycode \in {"Up", "Down"} -> [st EXCEPT !.input.yaxis = 0]
      [] keycode \in {"Left", "Right"} -> [st EXCEPT !.input.xaxis = 0]
      [] keycode = "Space" -> [st EXCEPT !.input.fire = FALSE]
      [] OTHER -> st

KeyDown ==
    /\ pc = "events"
    /\ \E keycode \in KeyCodes :
         /\ ms' = key_down_event(ms, keycode)
         /\ ctx' = IF keycode = "Escape" THEN [ctx EXCEPT !.quit_requested = TRUE] ELSE ctx
         /\ pc' = IF keycode = "Escape" THEN "exited" ELSE "events"
    /\ UNCHANGED <<obs, ticks>>

KeyUp ==
    /\ pc = "events"
    /\ \E keycode \in KeyCodes : ms' = key_up_event(ms, keycode)
    /\ UNCHANGED <<ctx, pc, obs, ticks>>

Next ==
    \/ Update
    \/ Tick
    \/ BorderCollisions
    \/ Interceptions
    \/ EndTick
    \/ Return
    \/ KeyDown
    \/ KeyUp

Spec == Init /\ [][Next]_vars

(* ---- properties -------------------------------------------------------- *)
RocketIds(st) == 1..Len(st.rockets)

GroundSet(st) == {i \in RocketIds(st) : below_ground(st, st.rockets[i])}

SideSet(st) == {i \in RocketIds(st) : off_side(st, st.rockets[i])}

\* the interceptors of b appended after those of a
Fresh(a, b) == (Len(a.interceptors) + 1)..Len(b.interceptors)

TickBoundary == pc \in {"events", "loop", "exited"}

\* C1: a border pass leaves every rocket that was below the ground line with
\* life 0, takes exactly 1 off the player's life for each of them, and
\* appends exactly one interceptor for each, at that rocket's position.
C1_GroundImpact ==
    [][pc = "border" =>
        LET G == GroundSet(ms)
        IN  /\ \A i \in G : ms'.rockets[i].life = 0
            /\ ms'.player.life = ms.player.life - Cardinality(G)
            /\ Cardinality(Fresh(ms, ms')) = Cardinality(G)
            /\ \A i \in G :
                 Cardinality({j \in Fresh(ms, ms') :
                                ms'.interceptors[j].pos = ms.rockets[i].pos})
                   = Cardinality({k \in G : ms.rockets[k].pos = ms.rockets[i].pos})]_vars

\* a border pass has just handled a ground impact
C1_Witness ==
    /\ pc = "interceptions"
    /\ \E i \in GroundSet(ms) :
         /\ ms.rockets[i].life = 0
         /\ \E j \in 1..Len(ms.interceptors) :
              /\ ms.interceptors[j].pos = ms.rockets[i].pos
              /\ ms.interceptors[j].elapsed = INTERCEPTOR_PERIOD * ES

\* C2 as stated: a border pass kills every rocket whose x is off the screen,
\* whatever its y, and such a rocket costs no life and makes no explosion:
\* damage and explosions come only from the rockets that are on the screen.
C2_SideExitSilent ==
    [][pc = "border" =>
        LET S == SideSet(ms)
            G == GroundSet(ms)
        IN  /\ \A i \in S : ms'.rockets[i].life = 0
            /\ ms'.player.life = ms.player.life - Cardinality(G \ S)
            /\ Cardinality(Fresh(ms, ms')) = Cardinality(G \ S)]_vars

\* C2 amended: a border pass kills every rocket whose x is off the screen;
\* one that is not below the ground line costs no life and makes no
\* explosion, one that is also below the ground line counts as a ground
\* impact: the damage and the explosions are those of the rockets below the
\* ground line.
C2_SideExitAboveGround ==
    [][pc = "border" =>
        LET S == SideSet(ms)
            G == GroundSet(ms)
        IN  /\ \A i \in S : ms'.rockets[i].life = 0
            /\ \A i \in RocketIds(ms) \ (S \cup G) :
                 ms'.rockets[i].life = ms.rockets[i].life
            /\ ms'.player.life = ms.player.life - Cardinality(G)
            /\ Cardinality(Fresh(ms, ms')) = Cardinality(G)
            /\ \A j \in Fresh(ms, ms') :
                 \E i \in G : ms'.interceptors[j].pos = ms.rockets[i].pos]_vars

\* a border pass has just killed a rocket that left by the side above the
\* ground line
C2_Witness ==
    /\ pc = "interceptions"
    /\ \E i \in SideSet(ms) \ GroundSet(ms) : ms.rockets[i].life = 0

\* C3 as stated: once the termination check has found the player's life
\* <= 0, nothing of the simulation changes any more.
C3_NoTickAfterGameOver ==
    [][ctx.game_over > 0 => ms' = ms]_vars

\* the number of interceptors that have rocket i within their radius
Blasts(st, i) ==
    Cardinality({j \in 1..Len(st.interceptors) :
                   in_blast(st.rockets[i], st.interceptors[j])})

\* C4 as stated: an interception pass sets the life of every rocket within
\* the radius of at least one interceptor to 0 and adds the bonus once for
\* each such rocket, however many interceptors cover it.
C4_BonusOncePerRocket ==
    [][pc = "interceptions" =>
        LET K == {i \in RocketIds(ms) : Blasts(ms, i) >= 1}
        IN  /\ \A i \in K : ms'.rockets[i].life = 0
            /\ ms'.score = ms.score + SCORE_BONUS * Cardinality(K)]_vars

\* the cursor bounds of the claim
CursorInBounds(actor, x, y) ==
    LET screen_x == (x \div 2) * CU
        screen_y == (y \div 2) * CU
    IN  /\ -screen_x <= actor.pos.x
        /\ actor.pos.x <= screen_x - CURSOR_WIDTH * CU
        /\ -screen_y + GROUND_HEIGHT * CU + CURSOR_HEIGHT * CU <= actor.pos.y
        /\ actor.pos.y <= screen_y

PlayerInBounds(st) == CursorInBounds(st.player, st.screen_width, st.screen_height)

\* C5 as stated: a cursor that is in bounds before a tick is in bounds after
\* it, whatever the input.
C5_CursorStaysInBounds ==
    [][PlayerInBounds(ms) => PlayerInBounds(ms')]_vars

\* the f32 value of axis * CURSOR_VEL * dt, in cursor units: 10.000001 pixel
Displacement(axis) == axis * (10 * CU + 1)

\* C6: in a tick, a cursor that starts out of bounds moves by exactly one
\* pixel inward on the first violated axis (right, left, top, bottom in that
\* order) and the input is not applied; a cursor that starts in bounds takes
\* no corrective step and moves by (xaxis, yaxis) * CURSOR_VEL * dt (its new
\* coordinates are the f32 sums).
C6_ClampOrMove ==
    [][pc = "loop" /\ pc' = "border" =>
        LET p == ms.player.pos
            q == ms'.player.pos
            screen_x == (ms.screen_width \div 2) * CU
            screen_y == (ms.screen_height \div 2) * CU
        IN  IF p.x > screen_x - CURSOR_WIDTH * CU THEN q = Vec2(p.x - CU, p.y)
            ELSE IF p.x < -screen_x THEN q = Vec2(p.x + CU, p.y)
            ELSE IF p.y > screen_y THEN q = Vec2(p.x, p.y - CU)
            ELSE IF p.y < -screen_y + (GROUND_HEIGHT + CURSOR_HEIGHT) * CU
                 THEN q = Vec2(p.x, p.y + CU)
            ELSE /\ PlayerInBounds(ms)
                 /\ q = Vec2(F32(p.x + Displacement(ms.input.xaxis)),
                             F32(p.y + Displacement(ms.input.yaxis)))]_vars

\* a tick has just taken a corrective step while a direction key was held
C6_Witness ==
    /\ pc = "border"
    /\ obs.clamped
    /\ ms.input.xaxis # 0
    /\ ms.input.yaxis # 0

\* C7 as stated: at every tick boundary every interceptor's radius is the
\* curve's value at its elapsed.
C7_RadiusFollowsElapsed ==
    TickBoundary =>
        \A j \in 1..Len(ms.interceptors) :
            ms.interceptors[j].radius = RadiusAt(ms.interceptors[j].elapsed)

\* C8: the player's life is GROUND_LIFE less the ground impacts so far, and
\* at a tick boundary the game-over announcement has been made exactly when
\* there have been GROUND_LIFE impacts or more; it comes with a quit request.
C8_LifeCountsImpacts ==
    /\ ms.player.life = GROUND_LIFE - obs.ground_hits
    /\ TickBoundary => (ctx.game_over > 0 <=> obs.ground_hits >= GROUND_LIFE)
    /\ ctx.game_over > 0 => ctx.quit_requested

\* the fifth impact has just ended the game
C8_Witness ==
    /\ pc = "loop"
    /\ ctx.game_over = 1
    /\ obs.ground_hits = GROUND_LIFE
    /\ ms.player.life = 0

\* C9: a tick runs the border pass, then the interception pass, then the
\* prune.  The prune leaves no rocket with life <= 0 and no interceptor with
\* elapsed <= 0, and up to the prune every interceptor the tick started its
\* border pass with is still in the collection, expired or not.
C9_PruneLast ==
    [][(/\ pc = "border" =>
            /\ pc' = "interceptions"
            /\ SubSeq(ms'.interceptors, 1, Len(ms.interceptors)) = ms.interceptors
        /\ pc = "interceptions" =>
            /\ pc' = "prune"
            /\ ms'.interceptors = ms.interceptors
        /\ pc = "prune" =>
            /\ pc' = "loop"
            /\ \A i \in RocketIds(ms') : ms'.rockets[i].life > 0
            /\ \A j \in 1..Len(ms'.interceptors) : ms'.interceptors[j].elapsed > 0
            /\ Len(ms'.rockets) = Cardinality({i \in RocketIds(ms) : ms.rockets[i].life > 0})
            /\ Len(ms'.interceptors) =
                 Cardinality({j \in 1..Len(ms.interceptors) :
                                ms.interceptors[j].elapsed > 0}))]_vars

\* an interceptor that expired in this tick's aging has been through the
\* interception pass and awaits the prune
C9_Witness ==
    /\ pc = "prune"
    /\ \E j \in 1..Len(ms.interceptors) : ms.interceptors[j].elapsed <= 0

\* the same rockets but for their lives
SameRockets(a, b) ==
    /\ Len(b.rockets) = Len(a.rockets)
    /\ \A i \in RocketIds(a) : b.rockets[i] = [a.rockets[i] EXCEPT !.life = b.rockets[i].life]

\* C10 as stated: from the start of the border pass to the start of the
\* prune neither collection gains or loses a member.
C10_NoMembershipChange ==
    [][(pc = "border" \/ pc = "interceptions") =>
        (/\ Len(ms'.rockets) = Len(ms.rockets)
         /\ Len(ms'.interceptors) = Len(ms.interceptors))]_vars

\* C10 amended: from the start of the border pass to the start of the prune
\* no rocket is added or removed and no interceptor is removed; the border
\* pass appends one interceptor for each rocket below the ground line, so
\* the interception pass sees those as well, and itself changes no
\* membership.
C10_OnlyExplosionsAdded ==
    [][(/\ pc = "border" =>
            /\ SameRockets(ms, ms')
            /\ SubSeq(ms'.interceptors, 1, Len(ms.interceptors)) = ms.interceptors
            /\ Cardinality(Fresh(ms, ms')) = Cardinality(GroundSet(ms))
        /\ pc = "interceptions" =>
            /\ SameRockets(ms, ms')
            /\ ms'.interceptors = ms.interceptors)]_vars

\* an interception pass has just run on a collection the border pass added
\* an explosion to, and has killed a rocket
C10_Witness ==
    /\ pc = "prune"
    /\ \E j \in 1..Len(ms.interceptors) :
         /\ ms.interceptors[j].elapsed = INTERCEPTOR_PERIOD * ES
         /\ \E i \in RocketIds(ms) : in_blast(ms.rockets[i], ms.interceptors[j])

\* C11: an interception pass leaves every rocket that is within the radius
\* of an interceptor with life 0 and every other rocket's life as it was;
\* the prune that ends the tick keeps exactly the rockets with life > 0, so
\* none of the rockets within a radius is in the collection after it.
C11_InterceptionKills ==
    [][(/\ pc = "interceptions" =>
            \A i \in RocketIds(ms) :
                IF Blasts(ms, i) >= 1
                THEN ms'.rockets[i].life = 0
                ELSE ms'.rockets[i].life = ms.rockets[i].life
        /\ pc = "prune" =>
            /\ \A i \in RocketIds(ms) : Blasts(ms, i) >= 1 => ms.rockets[i].life = 0
            /\ ms'.rockets = SelectSeq(ms.rockets, LAMBDA r : r.life > 0)
            /\ Len(ms'.rockets) =
                 Cardinality({i \in RocketIds(ms) : ms.rockets[i].life > 0}))]_vars

\* an interception pass has just killed a rocket that is on the screen and
\* above the ground line, within the radius of a shot the player fired this
\* tick, next to a rocket that is out of every radius and alive
C11_Witness ==
    /\ pc = "prune"
    /\ \E i \in RocketIds(ms) \ (GroundSet(ms) \cup SideSet(ms)) :
         /\ ms.rockets[i].life = 0
         /\ Blasts(ms, i) = 1
    /\ ms.score = SCORE_BONUS

\* What a tick does about waves, for a period of sep ticks: it spawns a wave
\* exactly when its decrement brings rocket_delay to <= 0.0; the wave adds
\* 1 + level or 2 + level rockets (the level as of this tick) and resets
\* rocket_delay, and comes sep ticks after the wave before it; a tick
\* without a wave adds no rocket.
WaveStep(sep) ==
    LET added == Len(ms'.rockets) - Len(ms.rockets)
    IN  /\ SubSeq(ms'.rockets, 1, Len(ms.rockets))
             = [i \in RocketIds(ms) |-> rocket_move(ms.rockets[i])]
        /\ IF WaveDue(ms)
           THEN /\ added \in {1 + ms'.level, 2 + ms'.level}
                /\ ms'.rocket_delay = RocketDelayTicks
                /\ obs'.waves = obs.waves + 1
                /\ obs.waves >= 1 => obs'.age - obs.last_wave = sep
           ELSE /\ added = 0
                /\ ms'.rocket_delay = ms.rocket_delay - 1
                /\ obs'.waves = obs.waves

\* C12 as stated: waves come exactly when the decremented rocket_delay is
\* <= 0.0, add 1 + level or 2 + level rockets and reset rocket_delay; two
\* consecutive waves are ROCKET_DELAY seconds, 240 ticks, apart, and no
\* rocket is added in a tick without a wave.
C12_WaveEvery240Ticks ==
    [][pc = "loop" /\ pc' = "border" => WaveStep(ROCKET_DELAY * DESIRED_FPS)]_vars

\* the second wave has just been spawned
C12_Witness ==
    /\ pc = "border"
    /\ obs.waves = 2
    /\ obs.last_wave = obs.age
    /\ Len(ms.rockets) = 2 + ms.level

\* the interceptors the player fired that have rocket i within their radius
PlayerBlasts(st, o, i) ==
    {j \in 1..Len(st.interceptors) :
        o.made[j].player /\ in_blast(st.rockets[i], st.interceptors[j])}

\* The rockets the border pass of this tick has killed (every rocket is
\* alive when a tick starts) that no interceptor fired by the player has
\* within its radius.
Unrewarded(st, o) ==
    {i \in RocketIds(st) : st.rockets[i].life <= 0 /\ PlayerBlasts(st, o, i) = {}}

\* C14 as stated: a rocket that the border pass killed and that no
\* player-fired interceptor has within its radius adds nothing to the score:
\* what an interception pass adds is the bonus for the hits on the other
\* rockets only; the explosion of a ground impact awards nothing for the
\* rocket that made it.
C14_NoBonusForBorderKills ==
    [][pc = "interceptions" =>
        LET U == Unrewarded(ms, obs)
            hits == {p \in (RocketIds(ms) \ U) \X (1..Len(ms.interceptors)) :
                       in_blast(ms.rockets[p[1]], ms.interceptors[p[2]])}
        IN  ms'.score = ms.score + SCORE_BONUS * Cardinality(hits)]_vars

\* an interception pass starts with a rocket that the border pass killed and
\* no player-fired interceptor covers
C14_Witness ==
    /\ pc = "interceptions"
    /\ Unrewarded(ms, obs) # {}

\* C15: a tick fires exactly when the fire flag is set and its decrement
\* brings shot_timeout to <= 0.0.  The shot is appended at the position the
\* cursor has after this tick's move, is aged once in this tick, and
\* shot_timeout restarts from SHOT_TIMEOUT; a tick that does not fire only
\* decrements shot_timeout.  Two consecutive shots are never less than 0.5 s
\* (30 ticks) apart, and exactly that far when the fire flag was set in every
\* tick in between.
C15_FireRate ==
    [][pc = "loop" /\ pc' = "border" =>
        LET n == Len(ms.interceptors)
        IN  /\ [j \in 1..n |-> ms'.interceptors[j]]
                 = [j \in 1..n |-> interceptor_elapse(ms.interceptors[j])]
            /\ IF ms.input.fire /\ ms.shot_timeout - 1 <= 0
               THEN /\ Len(ms'.interceptors) = n + 1
                    /\ ms'.interceptors[n + 1] =
                         interceptor_elapse(
                             [create_interceptor EXCEPT
                                 !.pos = Vec2(FieldUnits(ms'.player.pos.x),
                                              FieldUnits(ms'.player.pos.y))])
                    /\ ms'.shot_timeout = ShotTimeoutTicks
                    /\ obs'.last_shot = obs'.age
                    /\ obs.last_shot > 0 =>
                         /\ obs'.age - obs.last_shot >= DESIRED_FPS \div 2
                         /\ obs.fire_held =>
                              obs'.age - obs.last_shot = DESIRED_FPS \div 2
               ELSE /\ Len(ms'.interceptors) = n
                    /\ ms'.shot_timeout = ms.shot_timeout - 1
                    /\ obs'.last_shot = obs.last_shot]_vars

\* the player, holding the fire key since the last shot and moving the
\* cursor, has just fired again
C15_Witness ==
    /\ pc = "border"
    /\ obs.last_shot = obs.age
    /\ obs.fire_held
    /\ ms.input.yaxis # 0
    /\ \E j \in 1..Len(obs.made) :
         /\ obs.made[j].player
         /\ obs.made[j].tick = obs.age - DESIRED_FPS \div 2

\* the ticks an interceptor is aged in: INTERCEPTOR_PERIOD / (3 * dt)
Lifetime == (INTERCEPTOR_PERIOD * DESIRED_FPS) \div 3

\* the number of aging steps interceptor j has been through: a shot is aged
\* in the tick that creates it, an explosion is created after the aging
Agings(o, j) == o.age - o.made[j].tick + (IF o.made[j].player THEN 1 ELSE 0)

\* C16: elapsed starts at INTERCEPTOR_PERIOD and every tick's aging step
\* takes 3 * dt off it, which brings it to <= 0.0 in the 100th step; the
\* prune of a tick removes exactly the interceptors that have been through
\* 100 aging steps: a shot at the end of the 100th tick counting the tick
\* that created it, an explosion 100 ticks after the tick that created it.
\* At a tick boundary no interceptor in the collection is that old.
C16_InterceptorLifetime ==
    [][(/\ ElapseTicks = Lifetime
        /\ \A j \in 1..Len(ms.interceptors) :
             /\ ms.interceptors[j].elapsed * Lifetime
                    = (Lifetime - Agings(obs, j)) * INTERCEPTOR_PERIOD * ES
             /\ Agings(obs, j) <= Lifetime
             /\ TickBoundary => Agings(obs, j) < Lifetime
        /\ pc = "prune" =>
             LET both == [j \in 1..Len(ms.interceptors) |->
                             [actor |-> ms.interceptors[j],
                              due |-> Agings(obs, j) = Lifetime]]
                 kept == SelectSeq(both, LAMBDA b : ~b.due)
             IN  ms'.interceptors = [j \in 1..Len(kept) |-> kept[j].actor])]_vars

\* the explosion of a ground impact is in its 100th tick after the one that
\* created it and awaits the prune, which removes it
C16_Witness ==
    /\ pc = "prune"
    /\ \E j \in 1..Len(ms.interceptors) :
         /\ ~obs.made[j].player
         /\ obs.age = obs.made[j].tick + Lifetime
         /\ ms.interceptors[j].elapsed <= 0

\* C17 as stated: the player's life is never above GROUND_LIFE, no step
\* raises it, and no step takes it below 0, whatever the number of rockets
\* that reach the ground in one tick.
C17_LifeInRange ==
    [][/\ ms.player.life <= GROUND_LIFE
       /\ ms'.player.life <= ms.player.life
       /\ ms'.player.life >= 0]_vars

\* a border pass starts with two rockets below the ground line and a
\* player's life of 1
C17_Witness ==
    /\ pc = "border"
    /\ Cardinality(GroundSet(ms)) = 2
    /\ ms.player.life = 1

\* What a step does about the level, for a period of period ticks: the
\* level is 1 + floor(age / period); a tick whose decrement brings
\* level_timer to <= 0.0 raises the level by 1 and resets level_timer, and
\* the value its rand_range returns is in the range of the raised level;
\* nothing else changes the level.
LevelStep(period) ==
    /\ ms.level = 1 + obs.age \div period
    /\ ms'.level = 1 + obs'.age \div period
    /\ IF pc = "loop" /\ pc' = "border"
       THEN IF ms.level_timer - 1 <= 0
            THEN /\ ms'.level = ms.level + 1
                 /\ ms'.level_timer = LevelTimeTicks
                 /\ obs'.level_draw \in {1 + ms'.level, 2 + ms'.level}
            ELSE /\ ms'.level = ms.level
                 /\ ms'.level_timer = ms.level_timer - 1
                 /\ obs'.level_draw = obs.level_draw
       ELSE /\ ms'.level = ms.level
            /\ ms'.level_timer = ms.level_timer

\* C18 as stated: the level starts at 1 and rises by exactly 1 in the tick
\* whose decrement brings level_timer to <= 0.0, which resets level_timer to
\* LEVEL_TIME; after n ticks the level is 1 + floor(n / 900); the wave-size
\* draw of the tick that raises the level uses the raised level.
C18_LevelEvery900Ticks ==
    [][LevelStep(LEVEL_TIME * DESIRED_FPS)]_vars

\* the level has just risen to 2, and the rand_range of that tick returned
\* 4, a value of the range of level 2 only
C18_Witness ==
    /\ pc = "border"
    /\ ms.level = 2
    /\ ms.level_timer = LevelTimeTicks
    /\ obs.level_draw = 2 + ms.level

====
